---- MODULE Spec2Model ----
(***************************************************************************)
(* A model of prebuilt.py: the upload of prebuilt packages (gsutil worker  *)
(* pool or rsync command sequence), the retry helpers, and the update of   *)
(* the KEY="VALUE" line of make.conf / binhost.conf (local, git variant).  *)
(*                                                                         *)
(* Strings are sequences of atoms.  The atoms "=", "\n" and the double     *)
(* quote are the characters the code looks at; every other atom stands for *)
(* a run of characters the code never inspects.                            *)
(***************************************************************************)
EXTENDS Integers, Sequences, FiniteSets, TLC

VARIABLES
  opt,            \* the arguments of UploadPrebuilt and the files found on entry
  pc,             \* position of the main flow
  exc,            \* the exception that left UploadPrebuilt ("none": none so far)
  pending,        \* the exception in flight inside RevGitFile's try block
  fs,             \* the files: path -> File(content) or NoFile
  key, value,     \* the key and the value handed to UpdateLocalFile
  hist,           \* UpdateLocalFile specification: the contents seen so far
  cwd, old_cwd,   \* os.getcwd() and RevGitFile's saved copy of it
  branch,         \* the work branch prebuilt_branch: none, started, abandoned
  invoked,        \* which of RevGitFile, UpdateBinhostConfFile were entered
  workers,        \* RemoteUpload: pair -> the pool's task for it
  polls,          \* RemoteUpload: poll timeouts of result.get so far
  failed_uploads, \* what RemoteUpload returned
  cmds, rr,       \* rsync transport: the commands left, _RetryRun of the first
  gave_up,        \* history: the pairs and commands whose _RetryRun returned False
  cmdlog,         \* every command the main flow ran, with its outcome
  push,           \* RevGitPushWithRetry: retry, outcomes of the attempts, sleeps
  make_path,      \* what DetermineMakeConfFile gave for the board, if called
  pkg_index,      \* UploadPrebuilt: the index written to the temporary file
  uploads,        \* UploadPrebuilt: the entries left to upload
  _FILTER_PACKAGES, \* the module's global set of name fragments to filter
  main            \* main(): its position, options and locals

vars == <<opt, pc, exc, pending, fs, key, value, hist, cwd, old_cwd, branch,
          invoked, workers, polls, failed_uploads, cmds, rr, gave_up, cmdlog,
          push, make_path, pkg_index, uploads, _FILTER_PACKAGES, main>>

\* ------------------------------------------------------------------ bounds
\* Most previous indexes handed to one publish.
MaxPrev == 2
\* Longest target name handed to DetermineMakeConfFile, in atoms.
MaxTarget == 3
\* Longest input file of the UpdateLocalFile specification, in lines.
MaxLines == 3
\* Most packages left to upload after index resolution.
MaxPkgs == 2
\* Largest git_sync_retries tried.
MaxRetries == 5
\* Most poll timeouts of RemoteUpload's wait loop in one run.
MaxPolls == 1

\* ----------------------------------------------------------------- strings
DQ == "\""
EQ == "="
NL == "\n"

\* ------------------------------------------------- python string primitives
\* s.split(sep): the parts of s between the occurrences of sep
\* (always at least one part; "".split(sep) is [""]).
RECURSIVE Split(_, _)
Split(s, sep) ==
  IF s = <<>> THEN << <<>> >>
  ELSE LET rest == Split(Tail(s), sep) IN
       IF Head(s) = sep THEN << <<>> >> \o rest
       ELSE << <<Head(s)>> \o Head(rest) >> \o Tail(rest)

\* sep.join(parts)
RECURSIVE Join(_, _)
Join(parts, sep) ==
  IF parts = <<>> THEN <<>>
  ELSE IF Len(parts) = 1 THEN Head(parts)
  ELSE Head(parts) \o <<sep>> \o Join(Tail(parts), sep)

\* `for line in file_fh: line = line.rstrip("\n")`: the lines of a file's
\* content; a last line without a newline counts, an empty rest does not.
FileLines(content) ==
  LET parts == Split(content, NL) IN
  IF parts[Len(parts)] = <<>> THEN SubSeq(parts, 1, Len(parts) - 1) ELSE parts

\* keyval_str % {'key': k, 'value': v}
KeyvalStr(k, v) == k \o <<EQ>> \o v

\* '"%s"' % value
Quoted(v) == <<DQ>> \o v \o <<DQ>>

\* --------------------------------------------------------- UpdateLocalFile
\* Faulty variant: the loop drops the lines that do not fit key=val instead of
\* keeping them.
ULFLineDropsForeign(st, line, k) ==
  LET parts == Split(line, EQ) IN
  IF Len(parts) # 2
  THEN st
  ELSE IF parts[1] = k
       THEN [file_lines |-> Append(st.file_lines, KeyvalStr(k, Quoted(st.value))),
             found      |-> TRUE,
             value      |-> Quoted(st.value)]
       ELSE [st EXCEPT !.file_lines = Append(@, KeyvalStr(parts[1], parts[2]))]

\* One iteration of the loop over the file's lines.  st carries the locals
\* file_lines, found and value (value is reassigned inside the loop).
ULFLine(st, line, k) ==
  LET parts == Split(line, EQ) IN
  IF Len(parts) # 2
  THEN [st EXCEPT !.file_lines = Append(@, line)]
  ELSE LET file_var == parts[1]
           file_val == parts[2]
       IN IF file_var = k
          THEN [file_lines |-> Append(st.file_lines, KeyvalStr(k, Quoted(st.value))),
                found      |-> TRUE,
                value      |-> Quoted(st.value)]
          ELSE [st EXCEPT !.file_lines = Append(@, KeyvalStr(file_var, file_val))]

RECURSIVE ULFLoop(_, _, _)
ULFLoop(st, lines, k) ==
  IF lines = <<>> THEN st ELSE ULFLoop(ULFLine(st, Head(lines), k), Tail(lines), k)

\* `if not found: file_lines.append(keyval_str % {...})`
ULFAppend(st, k) ==
  IF ~st.found THEN Append(st.file_lines, KeyvalStr(k, st.value)) ELSE st.file_lines

\* new_file_fh.write('\n'.join(file_lines) + '\n')
ULFWrite(file_lines) == Join(file_lines, NL) \o <<NL>>

\* The content of the file after UpdateLocalFile(filename, value, key).
UpdateLocalFile(content, v, k) ==
  LET st == ULFLoop([file_lines |-> <<>>, found |-> FALSE, value |-> v],
                    FileLines(content), k)
  IN ULFWrite(ULFAppend(st, k))

\* ------------------------------------------------------ program constants
_RETRIES == 3
\* processes of RemoteUpload's pool (its default, which UploadPrebuilt uses)
PoolSize == 10
\* time.sleep(5*retry)
PushBackoff == 5

\* A path of the file system: a file with its content, or no file.
File(content) == [exists |-> TRUE, content |-> content]
NoFile == [exists |-> FALSE, content |-> <<>>]
\* Python's None among the (local, remote) tuples _GsUpload returns.
None == <<"None">>
GitFile == "git_file"
BinhostConf == "binhost_conf"
DefaultKey == <<"PORTAGE_BINHOST">>
\* config_file.write('FULL_BINHOST="$PORTAGE_BINHOST"\n')
BinhostDefault == <<"FULL_BINHOST", EQ, DQ, "$PORTAGE_BINHOST", DQ, NL>>

\* ------------------------------------------------------ DetermineMakeConfFile
\* A target name is a sequence of atoms: runs of letters and digits, and the
\* single characters '_', '-', '?' and newline.
_HOST_TARGET == <<"amd64">>
_PREBUILT_BASE_DIR == "src/third_party/chromiumos-overlay/chromeos/config/"
_BINHOST_BASE_DIR == "src/overlays"
_PREBUILT_MAKE_CONF == <<_PREBUILT_BASE_DIR, "make.conf.amd64-host">>

\* The atoms \w matches at their first character.
WordAtoms == {"amd64", "lumpy", "variant", "board", "invalid", "_"}

\* `.*?` reaches position i: '.' matches anything but a newline.
DotsUpTo(target, i) == \A j \in 1..(i - 1) : target[j] # NL

\* re.match('.*?_.*', target)
MatchVariant(target) ==
  \E i \in 1..Len(target) : target[i] = "_" /\ DotsUpTo(target, i)

\* Faulty variant: the hyphen need not be followed by a word character.
MatchOverlayAnyHyphen(target) ==
  \E i \in 1..Len(target) : target[i] = "-" /\ DotsUpTo(target, i)

\* re.match('.*?-\w+', target)
MatchOverlay(target) ==
  \E i \in 1..(Len(target) - 1) :
    target[i] = "-" /\ DotsUpTo(target, i) /\ target[i + 1] \in WordAtoms

\* target.replace('_', '-')
ReplaceUnderscores(target) ==
  [i \in 1..Len(target) |-> IF target[i] = "_" THEN "-" ELSE target[i]]

NoPath == [raised |-> FALSE, path |-> <<>>]

\* Faulty variant: any name that is not a variant is a plain overlay name.
DetermineMakeConfFileAnyBoard(target) ==
  IF _HOST_TARGET = target
  THEN [raised |-> FALSE, path |-> _PREBUILT_MAKE_CONF]
  ELSE IF MatchVariant(target)
  THEN [raised |-> FALSE,
        path |-> <<_BINHOST_BASE_DIR, "/", "overlay-variant-">>
                   \o ReplaceUnderscores(target) \o <<"/", "make.conf">>]
  ELSE [raised |-> FALSE,
        path |-> <<_BINHOST_BASE_DIR, "/", "overlay-">> \o target \o <<"/", "make.conf">>]

\* The returned path, or the raise of UnknownBoardFormat.
DetermineMakeConfFile(target) ==
  IF _HOST_TARGET = target
  THEN [raised |-> FALSE, path |-> _PREBUILT_MAKE_CONF]
  ELSE IF MatchVariant(target)
  THEN [raised |-> FALSE,
        path |-> <<_BINHOST_BASE_DIR, "/", "overlay-variant-">>
                   \o ReplaceUnderscores(target) \o <<"/", "make.conf">>]
  ELSE IF MatchOverlay(target)
  THEN [raised |-> FALSE,
        path |-> <<_BINHOST_BASE_DIR, "/", "overlay-">> \o target \o <<"/", "make.conf">>]
  ELSE [raised |-> TRUE, path |-> <<>>]

\* ------------------------------------------------------------- UploadPrebuilt
\* `if not board`: no board, or the empty name, is the host target.
IsHost(o) == o.board = None \/ o.board = <<>>

\* The local package directory holds the first n of these CPVs.
CPVs == << <<"foo", "-", "1.0">>, <<"bar", "-", "2.0">>,
           <<"baz", "-", "3.0">>, <<"qux", "-", "4.0">> >>
Uploads(n) == {CPVs[i] : i \in 1..n}

\* _REL_HOST_PATH and _REL_BOARD_PATH filled in: url_suffix.
UrlSuffix(o) ==
  IF IsHost(o)
  THEN <<"host", "/">> \o _HOST_TARGET \o <<"/">> \o o.version \o <<"/", "packages">>
  ELSE <<"board", "/">> \o o.board \o <<"/">> \o o.version \o <<"/", "packages">>

\* '%s/%s' % (upload_location.rstrip('/'), url_suffix)
RemoteLocation(o) == <<o.upload_location, "/">> \o UrlSuffix(o)

\* '%s/%s/' % (binhost_base_url, url_suffix)
UrlValue(o) == <<"binhost_base_url", "/">> \o UrlSuffix(o) \o <<"/">>

\* `name in file_path` for strings: name is a contiguous part of file_path.
Contains(file_path, name) ==
  \E i \in 0..(Len(file_path) - Len(name)) :
    SubSeq(file_path, i + 1, i + Len(name)) = name

\* Faulty variant: only a path equal to a fragment is filtered.
ShouldFilterPackageExact(file_path) == file_path \in _FILTER_PACKAGES

ShouldFilterPackage(file_path) ==
  \E name \in _FILTER_PACKAGES : Contains(file_path, name)

\* The package index (chromite.lib.binpkg): a sequence of entries, each with
\* its CPV and its storage URI.  The local index as it is loaded.
GrabLocalPackageIndex(o) ==
  [i \in 1..o.npkgs |-> [CPV |-> CPVs[i], URI |-> <<"unset">>]]

\* Every entry's URI becomes the destination base URI + relative path.
SetUploadLocation(index, base_uri, path_prefix) ==
  [i \in 1..Len(index) |-> [index[i] EXCEPT !.URI = <<base_uri, "/">> \o path_prefix]]

\* The entries whose path the filter predicate matches are dropped.
RemoveFilteredPackages(index) ==
  SelectSeq(index, LAMBDA e : ~ShouldFilterPackage(e.CPV))

\* The previous indexes, by position, that have an entry with this CPV.
Matches(cpv, pkg_indexes) ==
  {k \in 1..Len(pkg_indexes) :
     \E j \in 1..Len(pkg_indexes[k]) : pkg_indexes[k][j].CPV = cpv}

\* The URI of the entry in the first previous index that has the CPV.
MatchedURI(cpv, pkg_indexes) ==
  LET k == CHOOSE k \in Matches(cpv, pkg_indexes) :
             \A m \in Matches(cpv, pkg_indexes) : k <= m
      j == CHOOSE j \in 1..Len(pkg_indexes[k]) : pkg_indexes[k][j].CPV = cpv
  IN pkg_indexes[k][j].URI

\* The index after ResolveDuplicateUploads: an entry found in a previous
\* index takes that entry's URI.
ResolvedIndex(index, pkg_indexes) ==
  [i \in 1..Len(index) |->
     IF Matches(index[i].CPV, pkg_indexes) # {}
     THEN [index[i] EXCEPT !.URI = MatchedURI(index[i].CPV, pkg_indexes)]
     ELSE index[i]]

\* What ResolveDuplicateUploads returns: the entries found in no previous index.
ResolveDuplicateUploads(index, pkg_indexes) ==
  SelectSeq(index, LAMBDA e : Matches(e.CPV, pkg_indexes) = {})

\* Lines 419-421: the local index, located and filtered.
LocalIndex(o) ==
  RemoveFilteredPackages(
    SetUploadLocation(GrabLocalPackageIndex(o), "binhost_base_url", UrlSuffix(o)))

\* GenerateUploadDict, as the set of its (local path, remote path) items.
GenerateUploadDict(base_local_path, base_remote_path, pkgs) ==
  {<< <<base_local_path, "/">> \o pkgs[i].CPV \o <<".tbz2">>,
      base_remote_path \o <<"/">> \o pkgs[i].CPV \o <<".tbz2">> >>
     : i \in 1..Len(pkgs)}

\* upload_files[tmp_packages_file.name] = remote_file
PackagesPair(o) == << <<"tmp_packages_file">>, RemoteLocation(o) \o <<"/", "Packages">> >>

\* The mapping UploadPrebuilt hands to RemoteUpload.
UploadFiles(o) ==
  GenerateUploadDict("package_path", RemoteLocation(o),
                     ResolveDuplicateUploads(LocalIndex(o), o.pkg_indexes))
    \cup {PackagesPair(o)}

\* Faulty variant: the packages are copied before the index file.
RsyncCmdsIndexLast(o) ==
  <<"ssh mkdir -p">>
    \o (IF ResolveDuplicateUploads(LocalIndex(o), o.pkg_indexes) # <<>>
        THEN <<"rsync pkgs">> ELSE <<>>)
    \o <<"rsync Packages">>

\* The command list of the rsync transport.
RsyncCmds(o) ==
  <<"ssh mkdir -p", "rsync Packages">>
    \o (IF ResolveDuplicateUploads(LocalIndex(o), o.pkg_indexes) # <<>>
        THEN <<"rsync pkgs">> ELSE <<>>)

\* upload_location.startswith('gs://')
IsGs(o) == o.upload_location = "gs://bucket"

\* Faulty variant: the test misses a failure that comes with a success.
UploadsFailedOnlyWithoutNone(failed) == None \notin failed

\* `len(failed_uploads) > 1 or (None not in failed_uploads)`
UploadsFailed(failed) == Cardinality(failed) > 1 \/ None \notin failed

\* ------------------------------------------------------------------ _RetryRun
\* The state of one _RetryRun call: the outcomes of the runs of its command so
\* far and what it returned ("none" while the loop is still going).
RetryFresh == [log |-> <<>>, ret |-> "none"]

\* Faulty variant: the loop gives up one run early.
RetryRunStepGivesUpEarly(r, ok) ==
  IF ok THEN [log |-> Append(r.log, TRUE), ret |-> "True"]
  ELSE IF Len(r.log) + 1 < _RETRIES - 1
       THEN [log |-> Append(r.log, FALSE), ret |-> "none"]
       ELSE [log |-> Append(r.log, FALSE), ret |-> "False"]

\* One pass through the body of `for attempt in range(_RETRIES)`: the command
\* is run; success returns True, and the failure of the last pass falls into
\* the loop's else branch, which returns False.
RetryRunStep(r, ok) ==
  IF ok THEN [log |-> Append(r.log, TRUE), ret |-> "True"]
  ELSE IF Len(r.log) + 1 < _RETRIES
       THEN [log |-> Append(r.log, FALSE), ret |-> "none"]
       ELSE [log |-> Append(r.log, FALSE), ret |-> "False"]

\* _GsUpload's return value once its _RetryRun has returned.
GsUploadResult(pair, r) == IF r.ret = "False" THEN pair ELSE None

\* -------------------------------------------------------- RevGitPushWithRetry
\* The state of one RevGitPushWithRetry call: the loop variable, the outcome of
\* each sync-and-push attempt made, the sleeps slept, whether the loop is over
\* and whether it ended in its else branch (raise GitPushFailed).
PushFresh == [retry |-> 1, log |-> <<>>, sleeps |-> <<>>, done |-> FALSE, raised |-> FALSE]

\* `for retry in range(1, retries+1)` has no value left after `retry`.
PushLoopEnds(retry, retries) == retry + 1 > retries

\* Faulty variant: the backoff does not grow with the attempt number.
PushSleepFlat(retry, retries) == IF retry < retries THEN <<PushBackoff>> ELSE <<>>

\* The sleeps after failed attempt `retry`: `if retry < retries: sleep(5*retry)`.
PushSleep(retry, retries) == IF retry < retries THEN <<PushBackoff * retry>> ELSE <<>>

\* ----------------------------------------------------------------- the inputs
\* main() is not running: UploadPrebuilt or a function of it is called alone.
NoMain == [pc |-> "not called"]

MakeConf == <<"#comment", NL, "PORTAGE_BINHOST", EQ, DQ, "old", DQ, NL, "USE", EQ, "x", NL>>

\* The arguments of one UploadPrebuilt call and the files it finds.  A file
\* and the retry count vary only in the runs that read them, and only in the
\* uploads of at most one package.
Options ==
  {o \in [upload_location   : {"gs://bucket", "host:path"},
          git_sync          : BOOLEAN,
          sync_binhost_conf : BOOLEAN,
          git_sync_retries  : 1..MaxRetries,
          npkgs             : 0..MaxPkgs,
          git_file          : {NoFile, File(MakeConf)},
          binhost_conf      : {NoFile, File(BinhostDefault)},
          board             : {None, <<"lumpy">>},
          version           : {<<"version">>},
          pkg_indexes       : {<<>>}] :
     /\ ~o.git_sync => o.git_sync_retries = MaxRetries /\ o.git_file = File(MakeConf)
     /\ ~o.sync_binhost_conf => o.binhost_conf = NoFile
     /\ o.npkgs > 1 =>
          /\ o.git_sync_retries = MaxRetries
          /\ o.git_file = File(MakeConf) /\ o.binhost_conf = NoFile
     /\ o.board # None => ~o.git_sync /\ ~o.sync_binhost_conf /\ o.npkgs = 0}

Init ==
  /\ opt \in Options
  /\ pc = "UploadPrebuilt"
  /\ exc = "none"
  /\ pending = "none"
  /\ fs = [f \in {GitFile, BinhostConf} |->
             IF f = GitFile THEN opt.git_file ELSE opt.binhost_conf]
  /\ key = DefaultKey
  /\ value = UrlValue(opt)
  /\ hist = <<>>
  /\ cwd = "orig"
  /\ old_cwd = "unset"
  /\ branch = "none"
  /\ invoked = {}
  /\ workers = <<>>
  /\ polls = 0
  /\ failed_uploads = {}
  /\ cmds = <<>>
  /\ rr = RetryFresh
  /\ gave_up = {}
  /\ cmdlog = <<>>
  /\ push = PushFresh
  /\ make_path = NoPath
  /\ pkg_index = <<>>
  /\ uploads = <<>>
  /\ _FILTER_PACKAGES = {}
  /\ main = NoMain

\* ------------------------------------------------------------------- helpers
\* An exception leaves UploadPrebuilt.
Raise(e) == pc' = "raised" /\ exc' = e

\* cros_build_lib.RunCommand(cmd) in the main flow: logged with its outcome.
Ran(cmd, ok) == cmdlog' = Append(cmdlog, [cmd |-> cmd, ok |-> ok])

uploadVars == <<workers, polls, failed_uploads, cmds, rr, gave_up>>
gitVars == <<cwd, old_cwd, branch, push, pending>>
fileVars == <<fs, key, value, hist>>

\* ------------------------------------------------- UploadPrebuilt: the upload
\* Lines 399-431 / 439-450: the target's paths, the index, and the choice of
\* the transport by the destination's scheme.
UploadPrebuiltStart ==
  /\ pc = "UploadPrebuilt"
  /\ make_path' = IF IsHost(opt) THEN make_path ELSE DetermineMakeConfFile(opt.board)
  /\ IF make_path'.raised
     THEN Raise("UnknownBoardFormat") /\ UNCHANGED <<cmds, pkg_index, uploads>>
     ELSE /\ exc' = exc
          /\ pkg_index' = ResolvedIndex(LocalIndex(opt), opt.pkg_indexes)
          /\ uploads' = ResolveDuplicateUploads(LocalIndex(opt), opt.pkg_indexes)
          /\ IF IsGs(opt)
             THEN pc' = "RemoteUpload" /\ cmds' = cmds
             ELSE pc' = "rsync" /\ cmds' = RsyncCmds(opt)
  /\ UNCHANGED <<opt, main, _FILTER_PACKAGES, invoked, workers, polls,
                 failed_uploads, rr, gave_up, cmdlog>>
  /\ UNCHANGED gitVars /\ UNCHANGED fileVars

\* RemoteUpload up to pool.map_async: one task per item of the mapping.
RemoteUploadStart ==
  /\ pc = "RemoteUpload"
  /\ workers' = [p \in UploadFiles(opt) |->
                   [st |-> "queued", rr |-> RetryFresh, result |-> None]]
  /\ pc' = "result.get"
  /\ UNCHANGED <<opt, main, _FILTER_PACKAGES, make_path, pkg_index, uploads, exc, invoked, polls, failed_uploads, cmds, rr, gave_up, cmdlog>>
  /\ UNCHANGED gitVars /\ UNCHANGED fileVars

Running == {p \in DOMAIN workers : workers[p].st = "running"}

\* Faulty variant: the index file's task is taken only after every other task
\* has ended.
WorkerStartIndexLast(p) ==
  /\ pc = "result.get"
  /\ workers[p].st = "queued"
  /\ Cardinality(Running) < PoolSize
  /\ p = PackagesPair(opt) =>
       \A q \in DOMAIN workers \ {p} : workers[q].st = "done"
  /\ workers' = [workers EXCEPT ![p].st = "running"]
  /\ UNCHANGED <<opt, main, _FILTER_PACKAGES, make_path, pkg_index, uploads, pc, exc, invoked, polls, failed_uploads, cmds, rr, gave_up, cmdlog>>
  /\ UNCHANGED gitVars /\ UNCHANGED fileVars

\* A free process of the pool takes a queued task.
WorkerStart(p) ==
  /\ pc = "result.get"
  /\ workers[p].st = "queued"
  /\ Cardinality(Running) < PoolSize
  /\ workers' = [workers EXCEPT ![p].st = "running"]
  /\ UNCHANGED <<opt, main, _FILTER_PACKAGES, make_path, pkg_index, uploads, pc, exc, invoked, polls, failed_uploads, cmds, rr, gave_up, cmdlog>>
  /\ UNCHANGED gitVars /\ UNCHANGED fileVars

\* _GsUpload(pair): one run of the gsutil command inside _RetryRun; when
\* _RetryRun returns, the task ends with _GsUpload's return value.
WorkerAttempt(p) ==
  /\ pc = "result.get"
  /\ workers[p].st = "running"
  /\ \E ok \in BOOLEAN :
       LET r == RetryRunStep(workers[p].rr, ok) IN
       /\ workers' = [workers EXCEPT ![p] =
                       IF r.ret = "none"
                       THEN [st |-> "running", rr |-> r, result |-> None]
                       ELSE [st |-> "done", rr |-> r, result |-> GsUploadResult(p, r)]]
       /\ gave_up' = IF r.ret = "False" THEN gave_up \cup {p} ELSE gave_up
  /\ UNCHANGED <<opt, main, _FILTER_PACKAGES, make_path, pkg_index, uploads, pc, exc, invoked, polls, failed_uploads, cmds, rr, cmdlog>>
  /\ UNCHANGED gitVars /\ UNCHANGED fileVars

\* Faulty variant: the wait is over as soon as one task has failed.
AllDoneOrOneFailed ==
  \/ \A p \in DOMAIN workers : workers[p].st = "done"
  \/ \E p \in DOMAIN workers : workers[p].result # None

\* result.get has a value: every task of the map has ended.
AllDone == \A p \in DOMAIN workers : workers[p].st = "done"

\* Faulty variant: a timeout ends the wait with the results there are.
ResultGetTimeoutGivesUp ==
  /\ pc = "result.get"
  /\ ~(\A p \in DOMAIN workers : workers[p].st = "done")
  /\ polls < MaxPolls
  /\ polls' = polls + 1
  /\ failed_uploads' = {workers[p].result : p \in DOMAIN workers}
  /\ pc' = "failed_uploads"
  /\ UNCHANGED <<opt, main, _FILTER_PACKAGES, make_path, pkg_index, uploads, exc, invoked, workers, cmds, rr, gave_up, cmdlog>>
  /\ UNCHANGED gitVars /\ UNCHANGED fileVars

\* result.get(60*60) raises multiprocessing.TimeoutError: the loop goes round.
ResultGetTimeout ==
  /\ pc = "result.get"
  /\ ~AllDone
  /\ polls < MaxPolls
  /\ polls' = polls + 1
  /\ UNCHANGED <<opt, main, _FILTER_PACKAGES, make_path, pkg_index, uploads, pc, exc, invoked, workers, failed_uploads, cmds, rr, gave_up, cmdlog>>
  /\ UNCHANGED gitVars /\ UNCHANGED fileVars

\* set(result.get(...)): the set of the tasks' return values.
RemoteUploadResult == {workers[p].result : p \in DOMAIN workers}

\* result.get returns once every task has ended; RemoteUpload returns the set
\* and its pool, tasks and wait loop are gone.
ResultGetReturn ==
  /\ pc = "result.get"
  /\ AllDone
  /\ failed_uploads' = RemoteUploadResult
  /\ workers' = <<>>
  /\ polls' = 0
  /\ pc' = "failed_uploads"
  /\ UNCHANGED <<opt, main, _FILTER_PACKAGES, make_path, pkg_index, uploads, exc, invoked, cmds, rr, gave_up, cmdlog>>
  /\ UNCHANGED gitVars /\ UNCHANGED fileVars

\* Lines 435-437.  The message is built with '%s -> %s\n' % args for each
\* member, which raises TypeError for the member None.
CheckFailedUploads ==
  /\ pc = "failed_uploads"
  /\ IF UploadsFailed(failed_uploads)
     THEN IF None \in failed_uploads THEN Raise("TypeError") ELSE Raise("UploadFailed")
     ELSE pc' = "git_sync" /\ exc' = exc
  /\ UNCHANGED <<opt, main, _FILTER_PACKAGES, make_path, pkg_index, uploads, invoked, cmdlog>>
  /\ UNCHANGED uploadVars /\ UNCHANGED gitVars /\ UNCHANGED fileVars

\* Lines 451-453: one run of the first command left, inside _RetryRun.
RsyncRun ==
  /\ pc = "rsync"
  /\ cmds # <<>>
  /\ \E ok \in BOOLEAN :
       LET r == RetryRunStep(rr, ok) IN
       /\ Ran(Head(cmds), ok)
       /\ gave_up' = IF r.ret = "False" THEN gave_up \cup {Head(cmds)} ELSE gave_up
       /\ IF r.ret = "none" THEN rr' = r /\ cmds' = cmds /\ pc' = pc /\ exc' = exc
          ELSE IF r.ret = "False" THEN rr' = r /\ cmds' = cmds /\ Raise("UploadFailed")
          ELSE /\ rr' = RetryFresh
               /\ cmds' = Tail(cmds)
               /\ pc' = IF Tail(cmds) = <<>> THEN "git_sync" ELSE pc
               /\ exc' = exc
  /\ UNCHANGED <<opt, main, _FILTER_PACKAGES, make_path, pkg_index, uploads, invoked, workers, polls, failed_uploads>>
  /\ UNCHANGED gitVars /\ UNCHANGED fileVars

\* ------------------------------------------------------------------ RevGitFile
\* Faulty variant: RevGitFile is entered only when the other sync is off.
GitSyncUnlessBinhostSync ==
  /\ pc = "git_sync"
  /\ IF opt.git_sync /\ ~opt.sync_binhost_conf
     THEN /\ invoked' = invoked \cup {"RevGitFile"}
          /\ old_cwd' = cwd
          /\ cwd' = "git_dir"
          /\ pc' = "repo sync"
     ELSE /\ pc' = "sync_binhost_conf"
          /\ UNCHANGED <<invoked, old_cwd, cwd>>
  /\ UNCHANGED <<opt, main, _FILTER_PACKAGES, make_path, pkg_index, uploads, exc, cmdlog, branch, push, pending>>
  /\ UNCHANGED uploadVars /\ UNCHANGED fileVars

\* `if git_sync: RevGitFile(...)`, up to os.chdir(os.path.dirname(filename)).
GitSync ==
  /\ pc = "git_sync"
  /\ IF opt.git_sync
     THEN /\ invoked' = invoked \cup {"RevGitFile"}
          /\ old_cwd' = cwd
          /\ cwd' = "git_dir"
          /\ pc' = "repo sync"
     ELSE /\ pc' = "sync_binhost_conf"
          /\ UNCHANGED <<invoked, old_cwd, cwd>>
  /\ UNCHANGED <<opt, main, _FILTER_PACKAGES, make_path, pkg_index, uploads, exc, cmdlog, branch, push, pending>>
  /\ UNCHANGED uploadVars /\ UNCHANGED fileVars

\* Lines 163-168 run before the try statement: a failing command leaves
\* RevGitFile at once.
RGRepoSync ==
  /\ pc = "repo sync"
  /\ \E ok \in BOOLEAN :
       /\ Ran("repo sync", ok)
       /\ IF ok THEN pc' = "repo start" /\ exc' = exc ELSE Raise("RunCommandError")
  /\ UNCHANGED <<opt, main, _FILTER_PACKAGES, make_path, pkg_index, uploads, invoked>>
  /\ UNCHANGED uploadVars /\ UNCHANGED gitVars /\ UNCHANGED fileVars

RGRepoStart ==
  /\ pc = "repo start"
  /\ \E ok \in BOOLEAN :
       /\ Ran("repo start", ok)
       /\ IF ok THEN pc' = "git config url" /\ exc' = exc /\ branch' = "started"
          ELSE Raise("RunCommandError") /\ branch' = branch
  /\ UNCHANGED <<opt, main, _FILTER_PACKAGES, make_path, pkg_index, uploads, invoked, cwd, old_cwd, push, pending>>
  /\ UNCHANGED uploadVars /\ UNCHANGED fileVars

RGGitConfig ==
  /\ pc = "git config url"
  /\ \E ok \in BOOLEAN :
       /\ Ran("git config url", ok)
       /\ IF ok THEN pc' = "UpdateLocalFile" /\ exc' = exc ELSE Raise("RunCommandError")
  /\ UNCHANGED <<opt, main, _FILTER_PACKAGES, make_path, pkg_index, uploads, invoked>>
  /\ UNCHANGED uploadVars /\ UNCHANGED gitVars /\ UNCHANGED fileVars

\* The try block.  An exception inside it goes to the finally clause.
\* UpdateLocalFile(filename, value, key): open() raises IOError on a missing file.
RGUpdateLocalFile ==
  /\ pc = "UpdateLocalFile"
  /\ IF ~fs[GitFile].exists
     THEN pending' = "IOError" /\ pc' = "finally" /\ fs' = fs
     ELSE /\ fs' = [fs EXCEPT ![GitFile] = File(UpdateLocalFile(@.content, value, key))]
          /\ pc' = "git config push.default"
          /\ pending' = pending
  /\ UNCHANGED <<opt, main, _FILTER_PACKAGES, make_path, pkg_index, uploads, exc, invoked, cmdlog, cwd, old_cwd, branch, push, key, value, hist>>
  /\ UNCHANGED uploadVars

RGPushDefault ==
  /\ pc = "git config push.default"
  /\ \E ok \in BOOLEAN :
       /\ Ran("git config push.default", ok)
       /\ IF ok THEN pc' = "git commit" /\ pending' = pending
          ELSE pc' = "finally" /\ pending' = "RunCommandError"
  /\ UNCHANGED <<opt, main, _FILTER_PACKAGES, make_path, pkg_index, uploads, exc, invoked, cwd, old_cwd, branch, push>>
  /\ UNCHANGED uploadVars /\ UNCHANGED fileVars

\* git commit, then the call of RevGitPushWithRetry(retries).
RGCommit ==
  /\ pc = "git commit"
  /\ \E ok \in BOOLEAN :
       /\ Ran("git commit", ok)
       /\ IF ok THEN pc' = "push: repo sync" /\ pending' = pending
          ELSE pc' = "finally" /\ pending' = "RunCommandError"
  /\ UNCHANGED <<opt, main, _FILTER_PACKAGES, make_path, pkg_index, uploads, exc, invoked, cwd, old_cwd, branch, push>>
  /\ UNCHANGED uploadVars /\ UNCHANGED fileVars

\* RevGitPushWithRetry: attempt `retry` has failed (the except clause), then
\* the loop goes on or ends in its else branch, which raises GitPushFailed.
PushAttemptFailed ==
  /\ push' = [retry  |-> push.retry + 1,
              log    |-> Append(push.log, FALSE),
              sleeps |-> push.sleeps \o PushSleep(push.retry, opt.git_sync_retries),
              done   |-> PushLoopEnds(push.retry, opt.git_sync_retries),
              raised |-> PushLoopEnds(push.retry, opt.git_sync_retries)]
  /\ IF PushLoopEnds(push.retry, opt.git_sync_retries)
     THEN pc' = "finally" /\ pending' = "GitPushFailed"
     ELSE pc' = "push: repo sync" /\ pending' = pending

PushRepoSync ==
  /\ pc = "push: repo sync"
  /\ \E ok \in BOOLEAN :
       /\ Ran("repo sync", ok)
       /\ IF ok THEN pc' = "push: git push" /\ UNCHANGED <<push, pending>>
          ELSE PushAttemptFailed
  /\ UNCHANGED <<opt, main, _FILTER_PACKAGES, make_path, pkg_index, uploads, exc, invoked, cwd, old_cwd, branch>>
  /\ UNCHANGED uploadVars /\ UNCHANGED fileVars

PushGitPush ==
  /\ pc = "push: git push"
  /\ \E ok \in BOOLEAN :
       /\ Ran("git push", ok)
       /\ IF ok
          THEN /\ push' = [push EXCEPT !.log = Append(@, TRUE), !.done = TRUE]
               /\ pc' = "finally"
               /\ pending' = pending
          ELSE PushAttemptFailed
  /\ UNCHANGED <<opt, main, _FILTER_PACKAGES, make_path, pkg_index, uploads, exc, invoked, cwd, old_cwd, branch>>
  /\ UNCHANGED uploadVars /\ UNCHANGED fileVars

\* The finally clause: repo abandon, then os.chdir(old_cwd); after it the
\* exception in flight, if any, goes on.  A failing repo abandon raises
\* before the chdir and replaces the exception in flight.
RGFinally ==
  /\ pc = "finally"
  /\ \E ok \in BOOLEAN :
       /\ Ran("repo abandon", ok)
       /\ IF ok
          THEN /\ branch' = "abandoned"
               /\ cwd' = old_cwd
               /\ IF pending # "none" THEN Raise(pending)
                  ELSE pc' = "sync_binhost_conf" /\ exc' = exc
          ELSE /\ Raise("RunCommandError")
               /\ UNCHANGED <<branch, cwd>>
  /\ pending' = "none"
  /\ UNCHANGED <<opt, main, _FILTER_PACKAGES, make_path, pkg_index, uploads, invoked, old_cwd, push>>
  /\ UNCHANGED uploadVars /\ UNCHANGED fileVars

\* ------------------------------------------------------- UpdateBinhostConfFile
\* `if sync_binhost_conf: UpdateBinhostConfFile(...)`, up to the file's update:
\* a missing file is created with its default line, then UpdateLocalFile.
SyncBinhostConf ==
  /\ pc = "sync_binhost_conf"
  /\ IF opt.sync_binhost_conf
     THEN /\ invoked' = invoked \cup {"UpdateBinhostConfFile"}
          /\ fs' = [fs EXCEPT ![BinhostConf] =
                      File(UpdateLocalFile(IF @.exists THEN @.content ELSE BinhostDefault,
                                           value, key))]
          /\ pc' = "git add"
     ELSE pc' = "done" /\ UNCHANGED <<invoked, fs>>
  /\ UNCHANGED <<opt, main, _FILTER_PACKAGES, make_path, pkg_index, uploads, exc, cmdlog, key, value, hist>>
  /\ UNCHANGED uploadVars /\ UNCHANGED gitVars

UBGitAdd ==
  /\ pc = "git add"
  /\ \E ok \in BOOLEAN :
       /\ Ran("git add", ok)
       /\ IF ok THEN pc' = "git commit -m" /\ exc' = exc ELSE Raise("RunCommandError")
  /\ UNCHANGED <<opt, main, _FILTER_PACKAGES, make_path, pkg_index, uploads, invoked>>
  /\ UNCHANGED uploadVars /\ UNCHANGED gitVars /\ UNCHANGED fileVars

UBGitCommit ==
  /\ pc = "git commit -m"
  /\ \E ok \in BOOLEAN :
       /\ Ran("git commit -m", ok)
       /\ IF ok THEN pc' = "done" /\ exc' = exc ELSE Raise("RunCommandError")
  /\ UNCHANGED <<opt, main, _FILTER_PACKAGES, make_path, pkg_index, uploads, invoked>>
  /\ UNCHANGED uploadVars /\ UNCHANGED gitVars /\ UNCHANGED fileVars

Next ==
  \/ UploadPrebuiltStart
  \/ RemoteUploadStart
  \/ \E p \in DOMAIN workers : WorkerStart(p)
  \/ \E p \in DOMAIN workers : WorkerAttempt(p)
  \/ ResultGetTimeout
  \/ ResultGetReturn
  \/ CheckFailedUploads
  \/ RsyncRun
  \/ GitSync
  \/ RGRepoSync
  \/ RGRepoStart
  \/ RGGitConfig
  \/ RGUpdateLocalFile
  \/ RGPushDefault
  \/ RGCommit
  \/ PushRepoSync
  \/ PushGitPush
  \/ RGFinally
  \/ SyncBinhostConf
  \/ UBGitAdd
  \/ UBGitCommit

Spec == Init /\ [][Next]_vars

\* ------------------------------------------------ RemoteUpload under fairness
\* One gs:// upload on its own, up to the check of RemoteUpload's result.  A
\* transfer command that was started ends, a task in the queue is taken by a
\* process of the pool, and result.get returns once every task has ended.
InitUpload == Init /\ IsGs(opt) /\ ~opt.git_sync /\ ~opt.sync_binhost_conf

NextUpload ==
  \/ UploadPrebuiltStart
  \/ RemoteUploadStart
  \/ \E p \in DOMAIN workers : WorkerStart(p)
  \/ \E p \in DOMAIN workers : WorkerAttempt(p)
  \/ ResultGetTimeout
  \/ ResultGetReturn
  \/ CheckFailedUploads

SpecUpload ==
  /\ InitUpload /\ [][NextUpload]_vars
  /\ WF_vars(\E p \in DOMAIN workers : WorkerStart(p))
  /\ WF_vars(\E p \in DOMAIN workers : WorkerAttempt(p))
  /\ WF_vars(ResultGetReturn)

\* ----------------------------------------------- the resolution on its inputs
\* A previous index: some of the CPVs, each entry with the index's own URI.
PrevURIs == <<"previous-1", "previous-2", "previous-3", "previous-4">>
PrevIndex(k, cpvs) ==
  SelectSeq([i \in 1..Len(CPVs) |-> [CPV |-> CPVs[i], URI |-> <<PrevURIs[k]>>]],
            LAMBDA e : e.CPV \in cpvs)
PrevIndexLists ==
  UNION {{[k \in 1..n |-> PrevIndex(k, f[k])] : f \in [1..n -> SUBSET Uploads(MaxPkgs)]}
           : n \in 0..MaxPrev}
FilterSets == SUBSET {<<"foo">>, <<"bar">>}
Boards == {None, <<"lumpy">>, <<"lumpy", "-", "board">>}

\* One UploadPrebuilt call up to the hand-over of its upload tasks.
InitResolve ==
  /\ opt \in [upload_location   : {"gs://bucket", "host:path"},
              git_sync          : {FALSE},
              sync_binhost_conf : {FALSE},
              git_sync_retries  : {MaxRetries},
              npkgs             : 0..MaxPkgs,
              git_file          : {File(MakeConf)},
              binhost_conf      : {NoFile},
              board             : Boards,
              version           : {<<"version">>},
              pkg_indexes       : PrevIndexLists]
  /\ _FILTER_PACKAGES \in FilterSets
  /\ pc = "UploadPrebuilt"
  /\ exc = "none"
  /\ pending = "none"
  /\ fs = [f \in {GitFile, BinhostConf} |->
             IF f = GitFile THEN opt.git_file ELSE opt.binhost_conf]
  /\ key = DefaultKey
  /\ value = UrlValue(opt)
  /\ hist = <<>>
  /\ cwd = "orig"
  /\ old_cwd = "unset"
  /\ branch = "none"
  /\ invoked = {}
  /\ workers = <<>>
  /\ polls = 0
  /\ failed_uploads = {}
  /\ cmds = <<>>
  /\ rr = RetryFresh
  /\ gave_up = {}
  /\ cmdlog = <<>>
  /\ push = PushFresh
  /\ make_path = NoPath
  /\ pkg_index = <<>>
  /\ uploads = <<>>
  /\ main = NoMain

NextResolve ==
  \/ UploadPrebuiltStart
  \/ RemoteUploadStart

SpecResolve == InitResolve /\ [][NextResolve]_vars

\* ------------------------------------------------------------------------ main
\* GetVersion(): the time of the call, as text; a later call gives a later time.
Times == <<"t1", "t2", "t3">>
GetVersion(clock) == <<Times[clock + 1]>>

\* re.match('(.*?)-\d.*.ebuild', basename) for a file that ends in .ebuild:
\* the name is what stands before the first hyphen a digit follows.
Digits == {"1.0", "2.0"}
EbuildName(file) ==
  LET at == {i \in 1..(Len(file) - 1) : file[i] = "-" /\ file[i + 1] \in Digits}
  IN IF file # <<>> /\ file[Len(file)] = ".ebuild" /\ at # {}
     THEN {SubSeq(file, 1, (CHOOSE i \in at : \A j \in at : i <= j) - 1)}
     ELSE {}

\* The list `filters` LoadPrivateFilters builds from the files it lists.
PrivateFilters(files) == UNION {EbuildName(f) : f \in files}

\* The calls of UploadPrebuilt main makes never pass git_sync_retries.
GitSyncRetriesDefault == 5

\* Faulty variant: a fetch that fails discards the indexes fetched so far.
AppendIfFetchedElseNone(pkg_indexes, url) ==
  IF url.fetched THEN Append(pkg_indexes, url.index) ELSE <<>>

\* `pkg_index = GrabRemotePackageIndex(url); if pkg_index: pkg_indexes.append`
AppendIfFetched(pkg_indexes, url) ==
  IF url.fetched THEN Append(pkg_indexes, url.index) ELSE pkg_indexes

\* Faulty variant: main goes on to the board after a host publish that raised.
UploadPrebuiltLeft == pc \in {"done", "raised"}

\* The UploadPrebuilt call main is in has returned.
UploadPrebuiltReturned == pc = "done"

\* What main keeps of a publish that returned (history).
Publish ==
  [board |-> opt.board, version |-> opt.version, uploads |-> uploads,
   remote |-> IsGs(opt) \/ cmdlog # <<>>]

\* The command lines: a previous binhost URL is fetched or not, and the index
\* behind the k-th one holds foo-1.0.  The options a run does not read stay
\* at their defaults, and the previous indexes, the filters and the version
\* label vary in the runs without a config sync.
Url(k, fetched) == [fetched |-> fetched, index |-> PrevIndex(k, {CPVs[1]})]
UrlLists == UNION {{[k \in 1..n |-> Url(k, f[k])] : f \in [1..n -> BOOLEAN]} : n \in 0..MaxPrev}
OverlayFiles == {{}, {<<"README">>}, {<<"bar", "-", "2.0", ".ebuild">>, <<"README">>}}
MainOptions ==
  {o \in [build_path           : BOOLEAN,
          upload               : {None, <<"gs://bucket">>, <<"host:path">>},
          filters              : BOOLEAN,
          overlay_files        : OverlayFiles,
          previous_binhost_url : UrlLists,
          sync_host            : BOOLEAN,
          board                : {None, <<"lumpy", "-", "board">>, <<"?", "?", "invalid">>},
          git_sync             : BOOLEAN,
          sync_binhost_conf    : BOOLEAN,
          prepend_version      : {None, <<"label">>}] :
     /\ ~o.filters => o.overlay_files = {}
     /\ (~o.build_path \/ o.upload = None \/ (o.filters /\ PrivateFilters(o.overlay_files) = {})) =>
          /\ o.previous_binhost_url = <<>> /\ ~o.sync_host /\ o.board = None
          /\ ~o.git_sync /\ ~o.sync_binhost_conf /\ o.prepend_version = None
     /\ ~o.build_path => o.upload = None /\ ~o.filters
     /\ (o.git_sync \/ o.sync_binhost_conf \/ o.prepend_version # None) =>
          o.previous_binhost_url = <<>> /\ ~o.filters
     /\ o.prepend_version # None => ~o.git_sync /\ ~o.sync_binhost_conf}

InitMain ==
  /\ \E o \in MainOptions :
       main = [pc |-> "main", options |-> o, clock |-> 0, version |-> <<>>,
               pkg_indexes |-> <<>>, url |-> 1, published |-> <<>>]
  /\ opt = [upload_location |-> "none"]
  /\ pc = "main"
  /\ exc = "none"
  /\ pending = "none"
  /\ fs = <<>>
  /\ key = DefaultKey
  /\ value = <<>>
  /\ hist = <<>>
  /\ cwd = "orig"
  /\ old_cwd = "unset"
  /\ branch = "none"
  /\ invoked = {}
  /\ workers = <<>>
  /\ polls = 0
  /\ failed_uploads = {}
  /\ cmds = <<>>
  /\ rr = RetryFresh
  /\ gave_up = {}
  /\ cmdlog = <<>>
  /\ push = PushFresh
  /\ make_path = NoPath
  /\ pkg_index = <<>>
  /\ uploads = <<>>
  /\ _FILTER_PACKAGES = {}

publishVars ==
  <<opt, fs, key, value, hist, invoked, workers, polls, failed_uploads, cmds, rr,
    gave_up, cmdlog, make_path, pkg_index, uploads>>

\* Lines 506-518: the usage errors, LoadPrivateFilters, the version.
MainStart ==
  /\ main.pc = "main" /\ pc = "main"
  /\ LET o == main.options IN
     IF ~o.build_path \/ o.upload = None
     THEN /\ main' = [main EXCEPT !.pc = "sys.exit(1)"]
          /\ UNCHANGED <<pc, exc, _FILTER_PACKAGES>>
     ELSE IF o.filters /\ PrivateFilters(o.overlay_files) = {}
     THEN /\ Raise("FiltersEmpty")
          /\ UNCHANGED <<main, _FILTER_PACKAGES>>
     ELSE /\ _FILTER_PACKAGES' =
               IF o.filters THEN _FILTER_PACKAGES \cup PrivateFilters(o.overlay_files)
               ELSE _FILTER_PACKAGES
          /\ main' = [main EXCEPT
               !.pc = "previous_binhost_url",
               !.clock = @ + 1,
               !.version = IF o.prepend_version # None
                           THEN o.prepend_version \o <<"-">> \o GetVersion(main.clock)
                           ELSE GetVersion(main.clock)]
          /\ UNCHANGED <<pc, exc>>
  /\ UNCHANGED publishVars /\ UNCHANGED gitVars

\* Lines 520-524: one round of the loop over the previous binhost URLs.
MainGrabRemotePackageIndex ==
  /\ main.pc = "previous_binhost_url" /\ pc = "main"
  /\ LET urls == main.options.previous_binhost_url IN
     IF main.url <= Len(urls)
     THEN main' = [main EXCEPT
            !.pkg_indexes = AppendIfFetched(@, urls[main.url]),
            !.url = @ + 1]
     ELSE main' = [main EXCEPT !.pc = "sync_host"]
  /\ UNCHANGED <<pc, exc, _FILTER_PACKAGES>>
  /\ UNCHANGED publishVars /\ UNCHANGED gitVars

\* main's call of UploadPrebuilt for the host (board None) or for a board:
\* the arguments of the call and the files of the target as it finds them.
CallUploadPrebuilt(board) ==
  /\ opt' = [upload_location   |-> main.options.upload[1],
             git_sync          |-> main.options.git_sync,
             sync_binhost_conf |-> main.options.sync_binhost_conf,
             git_sync_retries  |-> GitSyncRetriesDefault,
             npkgs             |-> 1,
             git_file          |-> File(MakeConf),
             binhost_conf      |-> NoFile,
             board             |-> board,
             version           |-> main.version,
             pkg_indexes       |-> main.pkg_indexes]
  /\ pc' = "UploadPrebuilt"
  /\ fs' = [f \in {GitFile, BinhostConf} |->
              IF f = GitFile THEN opt'.git_file ELSE opt'.binhost_conf]
  /\ key' = DefaultKey
  /\ value' = UrlValue(opt')
  /\ hist' = <<>>
  /\ invoked' = {}
  /\ workers' = <<>> /\ polls' = 0 /\ failed_uploads' = {}
  /\ cmds' = <<>> /\ rr' = RetryFresh /\ gave_up' = {}
  /\ cmdlog' = <<>>
  /\ make_path' = NoPath /\ pkg_index' = <<>> /\ uploads' = <<>>
  /\ cwd' = cwd /\ old_cwd' = "unset" /\ branch' = "none"
  /\ push' = PushFresh /\ pending' = "none"
  /\ UNCHANGED <<exc, _FILTER_PACKAGES>>

\* Lines 526-530: `if options.sync_host: UploadPrebuilt(...)`.
MainSyncHost ==
  /\ main.pc = "sync_host" /\ pc = "main"
  /\ IF main.options.sync_host
     THEN /\ main' = [main EXCEPT !.pc = "host"]
          /\ CallUploadPrebuilt(None)
     ELSE /\ main' = [main EXCEPT !.pc = "board"]
          /\ UNCHANGED <<pc, exc, _FILTER_PACKAGES>>
          /\ UNCHANGED publishVars /\ UNCHANGED gitVars

\* The host's UploadPrebuilt has returned: main goes on to line 532.
MainHostReturned ==
  /\ main.pc = "host" /\ UploadPrebuiltReturned
  /\ main' = [main EXCEPT !.pc = "board", !.published = Append(@, Publish)]
  /\ pc' = "main"
  /\ UNCHANGED <<exc, _FILTER_PACKAGES>>
  /\ UNCHANGED publishVars /\ UNCHANGED gitVars

\* Lines 532-537: `if options.board: UploadPrebuilt(..., board=options.board)`.
MainBoard ==
  /\ main.pc = "board" /\ pc = "main"
  /\ IF main.options.board # None /\ main.options.board # <<>>
     THEN /\ main' = [main EXCEPT !.pc = "board publish"]
          /\ CallUploadPrebuilt(main.options.board)
     ELSE /\ main' = [main EXCEPT !.pc = "exit"]
          /\ UNCHANGED <<pc, exc, _FILTER_PACKAGES>>
          /\ UNCHANGED publishVars /\ UNCHANGED gitVars

\* The board's UploadPrebuilt has returned: main ends.
MainBoardReturned ==
  /\ main.pc = "board publish" /\ pc = "done"
  /\ main' = [main EXCEPT !.pc = "exit", !.published = Append(@, Publish)]
  /\ pc' = "main"
  /\ UNCHANGED <<exc, _FILTER_PACKAGES>>
  /\ UNCHANGED publishVars /\ UNCHANGED gitVars

NextMain ==
  \/ MainStart
  \/ MainGrabRemotePackageIndex
  \/ MainSyncHost
  \/ MainHostReturned
  \/ MainBoard
  \/ MainBoardReturned
  \/ Next

SpecMain == InitMain /\ [][NextMain]_vars

\* ----------------------------------------- DetermineMakeConfFile on its inputs
TargetAtoms == {"amd64", "lumpy", "variant", "board", "invalid", "_", "-", "?", NL}
Targets == UNION {[1..n -> TargetAtoms] : n \in 0..MaxTarget}

InitTarget ==
  /\ \E t \in Targets : opt = [board |-> t]
  /\ pc = "DetermineMakeConfFile"
  /\ exc = "none"
  /\ pending = "none"
  /\ fs = <<>>
  /\ key = DefaultKey
  /\ value = <<>>
  /\ hist = <<>>
  /\ cwd = "orig"
  /\ old_cwd = "unset"
  /\ branch = "none"
  /\ invoked = {}
  /\ workers = <<>>
  /\ polls = 0
  /\ failed_uploads = {}
  /\ cmds = <<>>
  /\ rr = RetryFresh
  /\ gave_up = {}
  /\ cmdlog = <<>>
  /\ push = PushFresh
  /\ make_path = NoPath
  /\ pkg_index = <<>>
  /\ uploads = <<>>
  /\ _FILTER_PACKAGES = {}
  /\ main = NoMain

\* DetermineMakeConfFile(target): it returns a path or raises.
CallDetermineMakeConfFile ==
  /\ pc = "DetermineMakeConfFile"
  /\ make_path' = DetermineMakeConfFile(opt.board)
  /\ IF make_path'.raised THEN Raise("UnknownBoardFormat")
     ELSE pc' = "returned" /\ exc' = exc
  /\ UNCHANGED <<opt, main, _FILTER_PACKAGES, pkg_index, uploads, invoked, cmdlog>>
  /\ UNCHANGED uploadVars /\ UNCHANGED gitVars /\ UNCHANGED fileVars

NextTarget == CallDetermineMakeConfFile

SpecTarget == InitTarget /\ [][NextTarget]_vars

\* ------------------------------------------- UpdateLocalFile on its own inputs
\* The lines the input files are made of: an empty line, a comment, the
\* default key quoted and unquoted, another variable, and a line with two '='.
InputLines ==
  { <<>>,
    <<"#comment">>,
    <<"PORTAGE_BINHOST", EQ, DQ, "old", DQ>>,
    <<"PORTAGE_BINHOST", EQ, "old">>,
    <<"USE", EQ, "x">>,
    <<"PORTAGE_BINHOST", EQ, "a", EQ, "b">> }
InputKeys == { <<"PORTAGE_BINHOST">>, <<"USE">> }
InputValues == { <<"new">>, <<"a", EQ, "b">> }
\* Files of at most MaxLines lines, with and without a final newline.
InputFiles ==
  { Join(ls, NL) \o nl :
      ls \in UNION {[1..n -> InputLines] : n \in 0..MaxLines},
      nl \in {<<>>, <<NL>>} }

InitFile ==
  /\ opt = [upload_location |-> "none"]
  /\ pc = "UpdateLocalFile only"
  /\ exc = "none"
  /\ pending = "none"
  /\ \E c \in InputFiles : /\ fs = [f \in {GitFile} |-> File(c)]
                           /\ hist = <<c>>
  /\ key \in InputKeys
  /\ value \in InputValues
  /\ cwd = "orig"
  /\ old_cwd = "unset"
  /\ branch = "none"
  /\ invoked = {}
  /\ workers = <<>>
  /\ polls = 0
  /\ failed_uploads = {}
  /\ cmds = <<>>
  /\ rr = RetryFresh
  /\ gave_up = {}
  /\ cmdlog = <<>>
  /\ push = PushFresh
  /\ make_path = NoPath
  /\ pkg_index = <<>>
  /\ uploads = <<>>
  /\ _FILTER_PACKAGES = {}
  /\ main = NoMain

\* UpdateLocalFile(filename, value, key), applied to the file at most twice.
ApplyUpdateLocalFile ==
  /\ pc = "UpdateLocalFile only"
  /\ Len(hist) < 3
  /\ fs' = [fs EXCEPT ![GitFile] = File(UpdateLocalFile(@.content, value, key))]
  /\ hist' = Append(hist, fs'[GitFile].content)
  /\ UNCHANGED <<opt, main, _FILTER_PACKAGES, make_path, pkg_index, uploads, pc, exc, invoked, cmdlog, key, value>>
  /\ UNCHANGED uploadVars /\ UNCHANGED gitVars

NextFile == ApplyUpdateLocalFile

SpecFile == InitFile /\ [][NextFile]_vars

\* =================================================================== claims
\* Vocabulary of the UpdateLocalFile claims: the lines before and after the
\* first application, and the code's own reading of a line.
LinesIn == FileLines(hist[1])
LinesOut == FileLines(hist[2])
Applied == pc = "UpdateLocalFile only" /\ Len(hist) >= 2
\* the line does not split on '=' into exactly two parts
Foreign(line) == Len(Split(line, EQ)) # 2
\* the line has an '=' and the key on its left
KeyLine(line) == Len(Split(line, EQ)) >= 2 /\ Split(line, EQ)[1] = key
\* the line the code takes for the key's: exactly two parts, the key on the left
KeyPair(line) == ~Foreign(line) /\ Split(line, EQ)[1] = key
KeyFound == \E i \in 1..Len(LinesIn) : KeyPair(LinesIn[i])
Count(line, lines) == Cardinality({i \in 1..Len(lines) : lines[i] = line})
RECURSIVE ForeignOnly(_)
ForeignOnly(lines) ==
  IF lines = <<>> THEN <<>>
  ELSE (IF Foreign(Head(lines)) THEN <<Head(lines)>> ELSE <<>>) \o ForeignOnly(Tail(lines))
Range(seq) == {seq[i] : i \in 1..Len(seq)}
\* the lines of `lines` that are members of `set`, in their order
RECURSIVE Among(_, _)
Among(lines, set) ==
  IF lines = <<>> THEN <<>>
  ELSE (IF Head(lines) \in set THEN <<Head(lines)>> ELSE <<>>) \o Among(Tail(lines), set)
\* neither the key nor the value holds an '='
NoEq(str) == \A i \in 1..Len(str) : str[i] # EQ
PlainKeyValue == NoEq(key) /\ NoEq(value)
\* key="value", the value in one pair of double quotes
WantedLine == KeyvalStr(key, Quoted(value))

\* C6: after UpdateLocalFile the file holds exactly one line whose left side
\* of '=' is the key, whatever the input (key absent, once, several times).
\* (Stated for keys and values without '='; a line counts as the key's under
\* either reading: the key before its first '=', or the code's own, the key on
\* the left of its only '='.)
C6_ExactlyOneKeyLine ==
  Applied /\ PlainKeyValue =>
    \/ Cardinality({i \in 1..Len(LinesOut) : KeyLine(LinesOut[i])}) = 1
    \/ Cardinality({i \in 1..Len(LinesOut) : KeyPair(LinesOut[i])}) = 1

\* C7: UpdateLocalFile is idempotent: a second application with the same key
\* and value leaves the file as the first one left it.  (Stated for keys and
\* values without '='.)
C7_Idempotent ==
  (pc = "UpdateLocalFile only" /\ Len(hist) = 3 /\ PlainKeyValue) => hist[3] = hist[2]

\* C8: after UpdateLocalFile the key's line reads key="value", the value in
\* exactly one pair of double quotes: in place of each line it replaced, and
\* as the last line when the key was absent.
C8_KeyLineQuoted ==
  Applied =>
    IF KeyFound
    THEN \A i \in 1..Len(LinesIn) : KeyPair(LinesIn[i]) => LinesOut[i] = WantedLine
    ELSE LinesOut[Len(LinesOut)] = WantedLine

AllFailed(log) == Len(log) = 3 /\ \A i \in 1..Len(log) : log[i] = FALSE
\* the pairs of the pool's tasks whose three transfers all failed
FailedPairs == {p \in DOMAIN workers : AllFailed(workers[p].rr.log)}
RemoteUploadReturned ==
  IsGs(opt) /\ pc \notin {"UploadPrebuilt", "RemoteUpload", "result.get"}
FailedUploadsChecked == RemoteUploadReturned /\ pc # "failed_uploads"
\* some transfer (gs://) or command (rsync) failed all its runs
UploadStepFailed == gave_up # {}
GitCommands ==
  {"repo sync", "repo start", "git config url", "git config push.default",
   "git commit", "git push", "repo abandon", "git add", "git commit -m"}
RevGitFileLeft ==
  /\ "RevGitFile" \in invoked
  /\ pc \in {"raised", "sync_binhost_conf", "git add", "git commit -m", "done"}

\* C1: once a transfer or a command of the upload has failed all its runs,
\* neither RevGitFile nor UpdateBinhostConfFile is entered in that publish: no
\* config file is changed and no git command is run (both transports).
C1_NoConfigAfterFailedUpload ==
  UploadStepFailed =>
    /\ invoked = {}
    /\ fs[GitFile] = opt.git_file /\ fs[BinhostConf] = opt.binhost_conf
    /\ \A i \in 1..Len(cmdlog) : cmdlog[i].cmd \notin GitCommands
    /\ branch = "none" /\ cwd = "orig"
    /\ pc \in {"result.get", "failed_uploads", "raised"}

\* A publish asked to do both syncs has ended in an exception after a failed
\* transfer (gs://, one pair failed and one succeeded).
C1_Witness ==
  /\ pc = "raised" /\ opt.git_sync /\ opt.sync_binhost_conf
  /\ IsGs(opt) /\ gave_up # {} /\ None \in failed_uploads

\* C2: whenever RevGitFile has been left, by return or by an exception of any
\* of its steps, the work branch is abandoned and the working directory is the
\* one RevGitFile was entered with.
C2_CleanupOnEveryExit ==
  RevGitFileLeft => branch = "abandoned" /\ cwd = old_cwd

\* C3: RemoteUpload returns exactly the set of the pairs whose transfers failed
\* on all retries (the empty set when every pair succeeded).
C3_ReturnsFailedSet ==
  RemoteUploadReturned => failed_uploads = gave_up

\* C4: with a gs:// destination UploadPrebuilt raises UploadFailed exactly when
\* some pair failed after its retries, only after every pair was attempted,
\* and the error reports all the failed pairs.
C4_UploadFailedIffSomePairFailed ==
  FailedUploadsChecked =>
    /\ (exc = "UploadFailed") <=> (gave_up # {})
    /\ exc = "UploadFailed" => failed_uploads = gave_up

\* C5: RevGitPushWithRetry(retries), retries >= 1, makes at most `retries`
\* sync-and-push attempts, none after one that succeeded, sleeps 5*k seconds
\* after the k-th failed attempt when another attempt follows and not after
\* the last one, and raises GitPushFailed exactly when all `retries` attempts
\* failed.
C5_PushWithRetry ==
  LET n == Len(push.log)
      r == opt.git_sync_retries
  IN /\ n <= r
     /\ \A i \in 1..n : push.log[i] = TRUE => i = n /\ push.done
     /\ push.done => n >= 1
     /\ push.sleeps = [k \in 1..(IF push.done THEN n - 1 ELSE n) |-> 5 * k]
     /\ push.raised => push.done
     /\ push.done => (push.raised <=> (n = r /\ \A i \in 1..n : push.log[i] = FALSE))
     /\ pc \in {"push: repo sync", "push: git push"} => ~push.done /\ push.retry = n + 1
     /\ pending = "GitPushFailed" => push.raised
     /\ (push.raised /\ pc = "finally") => pending = "GitPushFailed"

\* All five attempts of RevGitPushWithRetry(5) failed: it slept 5, 10, 15 and
\* 20 seconds between them and raised GitPushFailed.
C5_Witness ==
  /\ push.raised /\ pc = "finally"
  /\ opt.git_sync_retries = 5
  /\ push.log = <<FALSE, FALSE, FALSE, FALSE, FALSE>>
  /\ push.sleeps = <<5, 10, 15, 20>>

\* C10: _RetryRun runs its command at most 3 times and never after a run that
\* succeeded, returns True exactly when a run succeeded and False only after 3
\* failed runs; so _GsUpload returns its pair only after 3 failed transfers.
RetryRunOk(r) ==
  LET n == Len(r.log) IN
  /\ n <= 3
  /\ \A i \in 1..n : r.log[i] = TRUE => i = n
  /\ r.ret = "True" <=> (n >= 1 /\ r.log[n] = TRUE)
  /\ r.ret = "False" <=> AllFailed(r.log)
  /\ r.ret \in {"none", "True", "False"}
C10_RetryRun ==
  /\ RetryRunOk(rr)
  /\ \A p \in DOMAIN workers :
       /\ RetryRunOk(workers[p].rr)
       /\ workers[p].result # None => workers[p].result = p /\ AllFailed(workers[p].rr.log)
       /\ workers[p].st = "done" <=> workers[p].rr.ret # "none"
       /\ AllFailed(workers[p].rr.log) => workers[p].result = p
  /\ gave_up \cap DOMAIN workers = FailedPairs
  /\ \A x \in failed_uploads : x # None => x \in gave_up

\* One pair went through on its third transfer and another one failed three
\* times and was returned by _GsUpload.
C10_Witness ==
  \E p, q \in DOMAIN workers :
    /\ workers[p].rr.log = <<FALSE, FALSE, TRUE>> /\ workers[p].result = None
    /\ workers[q].rr.log = <<FALSE, FALSE, FALSE>> /\ workers[q].result = q
    /\ workers[p].st = "done"

\* ------------------------------------------------------ RemoteUpload's tasks
\* C11: RemoteUpload does not fail fast.  While it waits there is one task per
\* pair of the mapping, a task is taken from the queue once and never put
\* back, no task is dropped because another one failed, and RemoteUpload
\* returns only when every pair's transfer has been run at least once.
C11_NoFailFast ==
  /\ [](pc = "result.get" =>
          /\ DOMAIN workers = UploadFiles(opt)
          /\ \A p \in DOMAIN workers :
               workers[p].st = "queued" => workers[p].rr.log = <<>>)
  /\ [][pc = "result.get" =>
          /\ pc' = "result.get" =>
               /\ DOMAIN workers' = DOMAIN workers
               /\ \A p \in DOMAIN workers :
                    /\ workers[p].st # "queued" => workers'[p].st # "queued"
                    /\ workers[p].st = "done" => workers'[p] = workers[p]
                    /\ Len(workers'[p].rr.log) >= Len(workers[p].rr.log)
          /\ pc' # "result.get" =>
               \A p \in UploadFiles(opt) :
                 workers[p].st = "done" /\ Len(workers[p].rr.log) >= 1]_vars

\* Every task has ended, one of them after three failed transfers and another
\* one after a transfer that went through.
C11_Witness ==
  /\ pc = "result.get" /\ AllDone
  /\ \E p, q \in DOMAIN workers :
       /\ AllFailed(workers[p].rr.log)
       /\ workers[q].rr.log = <<TRUE>>

\* ------------------------------------------------------- the two config syncs
\* The upload of this publish is over and no transfer or command of it failed.
UploadSucceeded ==
  /\ gave_up = {} /\ exc # "UnknownBoardFormat"
  /\ pc \notin {"UploadPrebuilt", "RemoteUpload", "result.get", "failed_uploads", "rsync"}
PublishOver == pc \in {"done", "raised"}
RanRevGitFile == "RevGitFile" \in invoked
RanUpdateBinhostConfFile == "UpdateBinhostConfFile" \in invoked

\* C14 as stated: after a successful upload RevGitFile has run exactly when
\* git_sync is set and UpdateBinhostConfFile exactly when sync_binhost_conf is
\* set, whatever the other one's flag and outcome.
C14_SyncsIndependent ==
  (UploadSucceeded /\ PublishOver) =>
    /\ RanRevGitFile <=> opt.git_sync
    /\ RanUpdateBinhostConfFile <=> opt.sync_binhost_conf

\* C14, amended: RevGitFile runs exactly when git_sync is set, whatever
\* sync_binhost_conf is; UpdateBinhostConfFile runs exactly when
\* sync_binhost_conf is set and RevGitFile, if it was asked for, has returned
\* without raising (branch abandoned, directory restored).
C14_SyncsInOrder ==
  /\ RanRevGitFile => opt.git_sync /\ UploadSucceeded
  /\ RanUpdateBinhostConfFile =>
       /\ opt.sync_binhost_conf /\ UploadSucceeded
       /\ opt.git_sync => RanRevGitFile /\ branch = "abandoned" /\ cwd = old_cwd
  /\ (UploadSucceeded /\ pc = "done") =>
       /\ RanRevGitFile <=> opt.git_sync
       /\ RanUpdateBinhostConfFile <=> opt.sync_binhost_conf
  /\ (UploadSucceeded /\ pc = "raised") =>
       /\ RanRevGitFile <=> opt.git_sync
       /\ ~RanUpdateBinhostConfFile => opt.git_sync
       /\ ~opt.git_sync => RanUpdateBinhostConfFile /\ opt.sync_binhost_conf

\* Both syncs were asked for, the upload went through and RevGitFile raised
\* GitPushFailed: UpdateBinhostConfFile was never entered.
C14_Witness ==
  /\ opt.git_sync /\ opt.sync_binhost_conf
  /\ UploadSucceeded /\ pc = "raised" /\ exc = "GitPushFailed"
  /\ RanRevGitFile /\ ~RanUpdateBinhostConfFile

\* --------------------------------------------------------- the rsync commands
\* The runs of the rsync transport's commands, in the order they were made.
RsyncOrder == <<"ssh mkdir -p", "rsync Packages", "rsync pkgs">>
IsRsyncCmd(e) == \E k \in 1..Len(RsyncOrder) : e.cmd = RsyncOrder[k]
RsyncLog == SelectSeq(cmdlog, IsRsyncCmd)
RunsOf(cmd) == SelectSeq(RsyncLog, LAMBDA e : e.cmd = cmd)
WentThrough(cmd) == RunsOf(cmd) # <<>> /\ RunsOf(cmd)[Len(RunsOf(cmd))].ok
FailedAllRuns(cmd) == Len(RunsOf(cmd)) = 3 /\ \A i \in 1..3 : ~RunsOf(cmd)[i].ok

\* C17: with a destination that is not gs:// the commands run in the order
\* mkdir, index, packages; the packages command only with a non-empty upload
\* set; each at most 3 times and never after a run of it that succeeded; a
\* later command only after the earlier ones went through; after a command's
\* third failed run nothing more is run and UploadFailed is raised; the config
\* syncs start only when all the commands went through.
C17_RsyncSequence ==
  IF IsGs(opt)
  THEN \A i \in 1..Len(cmdlog) : ~IsRsyncCmd(cmdlog[i])
  ELSE
    LET L == RsyncLog
        runs == [k \in 1..3 |-> SelectSeq(L, LAMBDA e : e.cmd = RsyncOrder[k])]
        through == [k \in 1..3 |-> runs[k] # <<>> /\ runs[k][Len(runs[k])].ok]
        failed == [k \in 1..3 |-> Len(runs[k]) = 3 /\ \A i \in 1..3 : ~runs[k][i].ok]
    IN
    /\ L = runs[1] \o runs[2] \o runs[3]
    /\ \A k \in 1..3 :
         /\ Len(runs[k]) <= 3
         /\ \A i \in 1..Len(runs[k]) : runs[k][i].ok => i = Len(runs[k])
         /\ runs[k] # <<>> /\ k > 1 => through[k - 1]
         /\ failed[k] =>
              /\ pc = "raised" /\ exc = "UploadFailed"
              /\ cmdlog[Len(cmdlog)].cmd = RsyncOrder[k]
    /\ runs[3] # <<>> => uploads # <<>>
    /\ (pc \notin {"UploadPrebuilt", "rsync"}
          /\ exc \notin {"UploadFailed", "UnknownBoardFormat"}) =>
         /\ through[1] /\ through[2]
         /\ uploads # <<>> => through[3]
    /\ exc = "UploadFailed" => \E k \in 1..3 : failed[k]

\* The directory was made and the index copied, the packages command failed
\* three times and UploadFailed was raised.
C17_Witness ==
  /\ ~IsGs(opt) /\ pc = "raised" /\ exc = "UploadFailed"
  /\ WentThrough("ssh mkdir -p") /\ WentThrough("rsync Packages")
  /\ FailedAllRuns("rsync pkgs")

\* ------------------------------------------------------------- the wait loop
\* C19: a timeout of result.get changes nothing but the count of the polls (no
\* result, no failure, no task touched, the wait goes on); no task makes more
\* than 3 transfers; and, every started transfer ending, RemoteUpload returns.
C19_TimeoutThenReturn ==
  /\ [][polls' > polls =>
          /\ pc = "result.get" /\ pc' = "result.get"
          /\ UNCHANGED <<workers, failed_uploads, gave_up, exc>>]_vars
  /\ [](\A p \in DOMAIN workers : Len(workers[p].rr.log) <= 3)
  /\ (pc = "result.get") ~> (pc = "failed_uploads")

\* The wait has timed out, and every task has ended since, one of them on its
\* third transfer.
C19_Witness ==
  /\ pc = "result.get" /\ polls >= 1 /\ AllDone
  /\ \E p \in DOMAIN workers : Len(workers[p].rr.log) = 3

\* ------------------------------------------------------------ the target name
\* Vocabulary: the outcome of the call, and the four forms it can take.
Called == pc \in {"returned", "raised"} /\ "board" \in DOMAIN opt /\ main = NoMain
  /\ make_path # NoPath
HostPath == <<"src/third_party/chromiumos-overlay/chromeos/config/", "make.conf.amd64-host">>
Dashed(t) == [i \in 1..Len(t) |-> IF t[i] = "_" THEN "-" ELSE t[i]]
VariantPath(t) == <<"src/overlays", "/", "overlay-variant-">> \o Dashed(t) \o <<"/", "make.conf">>
OverlayPath(t) == <<"src/overlays", "/", "overlay-">> \o t \o <<"/", "make.conf">>
Returned(path) == pc = "returned" /\ exc = "none" /\ make_path = [raised |-> FALSE, path |-> path]
RaisedFormat == pc = "raised" /\ exc = "UnknownBoardFormat" /\ make_path.raised
IsWordChar(a) == a \notin {"-", "?", NL}
HasUnderscore(t) == \E i \in 1..Len(t) : t[i] = "_"
HasHyphenWord(t) == \E i \in 1..(Len(t) - 1) : t[i] = "-" /\ IsWordChar(t[i + 1])
FirstLine(t) ==
  IF \E i \in 1..Len(t) : t[i] = NL
  THEN SubSeq(t, 1, (CHOOSE i \in 1..Len(t) : t[i] = NL /\ \A j \in 1..(i - 1) : t[j] # NL) - 1)
  ELSE t
\* the hyphen is on the first line; the word character after it may be anywhere
HyphenWordFromFirstLine(t) ==
  \E i \in 1..Len(FirstLine(t)) : t[i] = "-" /\ i < Len(t) /\ IsWordChar(t[i + 1])

\* C12 as stated: every target name gives one of four outcomes, in this order:
\* 'amd64' the host path; else a name containing '_' the variant path; else a
\* name containing '-' followed by a word character the overlay path; else
\* UnknownBoardFormat.
C12_FourOutcomes ==
  Called =>
    LET t == opt.board IN
    IF t = <<"amd64">> THEN Returned(HostPath)
    ELSE IF HasUnderscore(t) THEN Returned(VariantPath(t))
    ELSE IF HasHyphenWord(t) THEN Returned(OverlayPath(t))
    ELSE RaisedFormat

\* C12, amended: the same four outcomes in the same order, where the
\* underscore, and the hyphen followed by a word character, count only on the
\* first line of the name (before its first newline, if it has one).
C12_FourOutcomesFirstLine ==
  Called =>
    LET t == opt.board IN
    /\ IF t = <<"amd64">> THEN Returned(HostPath)
       ELSE IF HasUnderscore(FirstLine(t)) THEN Returned(VariantPath(t))
       ELSE IF HyphenWordFromFirstLine(t) THEN Returned(OverlayPath(t))
       ELSE RaisedFormat
    /\ t = <<"lumpy", "_", "variant">> => Returned(VariantPath(t))
    /\ t = <<"lumpy", "-", "board">> => Returned(OverlayPath(t))
    /\ t = <<"?", "?", "invalid">> => RaisedFormat

\* A name whose only underscore comes after a newline is neither a variant
\* nor an overlay name: UnknownBoardFormat.
C12_Witness ==
  /\ Called /\ opt.board = <<"lumpy", NL, "_">>
  /\ RaisedFormat

\* --------------------------------------------------------- index resolution
\* Vocabulary, stated on the inputs: the local CPVs, the ones a filter
\* fragment is part of, the ones some previous index holds, and the URI of a
\* CPV in the first previous index that holds it.
LocalCPVs == {CPVs[i] : i \in 1..opt.npkgs}
PartOf(frag, cpv) ==
  \E i \in 1..Len(cpv) : \E j \in i..Len(cpv) : SubSeq(cpv, i, j) = frag
Filtered(cpv) == \E frag \in _FILTER_PACKAGES : PartOf(frag, cpv)
Holds(k, cpv) == \E j \in 1..Len(opt.pkg_indexes[k]) : opt.pkg_indexes[k][j].CPV = cpv
Published(cpv) == \E k \in 1..Len(opt.pkg_indexes) : Holds(k, cpv)
FirstHolder(cpv) ==
  CHOOSE k \in 1..Len(opt.pkg_indexes) :
    Holds(k, cpv) /\ \A m \in 1..(k - 1) : ~Holds(m, cpv)
ToUpload == {c \in LocalCPVs : ~Filtered(c) /\ ~Published(c)}
RelativePath ==
  IF opt.board = None
  THEN <<"host", "/", "amd64", "/">> \o opt.version \o <<"/", "packages">>
  ELSE <<"board", "/">> \o opt.board \o <<"/">> \o opt.version \o <<"/", "packages">>
Task(cpv) ==
  << <<"package_path", "/">> \o cpv \o <<".tbz2">>,
     <<opt.upload_location, "/">> \o RelativePath \o <<"/">> \o cpv \o <<".tbz2">> >>
Resolved == pc \in {"RemoteUpload", "rsync", "result.get"}
Written(cpv) == \E i \in 1..Len(pkg_index) : pkg_index[i].CPV = cpv
WrittenURI(cpv) == pkg_index[CHOOSE i \in 1..Len(pkg_index) : pkg_index[i].CPV = cpv].URI

\* C16: the entries left to upload are exactly the local entries that are not
\* filtered and are in no previous index, one per CPV; the tasks handed to
\* RemoteUpload are one task per such CPV, to
\* <upload location>/<relative path>/<CPV>.tbz2, and the task of the index
\* file; an entry some previous index holds is written with the URI of the
\* first previous index that holds it.
C16_UploadTasks ==
  Resolved =>
    /\ {uploads[i].CPV : i \in 1..Len(uploads)} = ToUpload
    /\ Len(uploads) = Cardinality(ToUpload)
    /\ GenerateUploadDict("package_path", RemoteLocation(opt), uploads)
         = {Task(c) : c \in ToUpload}
    /\ pc = "result.get" =>
         /\ {Task(c) : c \in ToUpload} \subseteq DOMAIN workers
         /\ Cardinality(DOMAIN workers) = Cardinality(ToUpload) + 1
    /\ \A c \in LocalCPVs :
         /\ Written(c) <=> ~Filtered(c)
         /\ (Written(c) /\ Published(c)) =>
              WrittenURI(c) = <<PrevURIs[FirstHolder(c)]>>
         /\ (Written(c) /\ ~Published(c)) =>
              WrittenURI(c) = <<"binhost_base_url", "/">> \o RelativePath

\* Of two local packages one is held by both previous indexes and takes the
\* first one's URI, and the other one is the only package task of the pool.
C16_Witness ==
  /\ pc = "result.get" /\ opt.npkgs = 2 /\ Len(opt.pkg_indexes) = 2
  /\ _FILTER_PACKAGES = {}
  /\ Holds(1, CPVs[1]) /\ Holds(2, CPVs[1]) /\ ~Published(CPVs[2])
  /\ WrittenURI(CPVs[1]) = <<"previous-1">>
  /\ DOMAIN workers = {Task(CPVs[2]), PackagesPair(opt)}

\* ---------------------------------------------------------- the board 'lumpy'
\* The publish was given one previous index, which holds foo-1.0, and the
\* local directory holds foo-1.0, which no filter fragment is part of.
Foo == <<"foo", "-", "1.0">>
OnePreviousWithFoo ==
  /\ Len(opt.pkg_indexes) = 1 /\ Holds(1, Foo)
  /\ Foo \in LocalCPVs /\ ~Filtered(Foo)
FooReused ==
  /\ Resolved
  /\ \A i \in 1..Len(uploads) : uploads[i].CPV # Foo
  /\ Written(Foo) /\ WrittenURI(Foo) = <<"previous-1">>

\* C15 as stated: the publish for board 'lumpy' with one previous index that
\* holds foo-1.0 reaches the resolution, leaves foo-1.0 out of the upload set
\* and writes it with the previous index's URI.
C15_LumpyReusesFoo ==
  (opt.board = <<"lumpy">> /\ OnePreviousWithFoo /\ pc # "UploadPrebuilt") => FooReused

\* C15, amended: the publish for board 'lumpy' raises UnknownBoardFormat
\* before the local index is loaded or resolved; for a board name
\* DetermineMakeConfFile accepts ('lumpy-board') and for the host, the publish
\* with one previous index that holds foo-1.0 leaves foo-1.0 out of the upload
\* set and writes it with the previous index's URI.
C15_LumpyRejected ==
  /\ (opt.board = <<"lumpy">> /\ pc # "UploadPrebuilt") =>
       /\ pc = "raised" /\ exc = "UnknownBoardFormat"
       /\ pkg_index = <<>> /\ uploads = <<>> /\ workers = <<>> /\ cmds = <<>>
  /\ (opt.board # <<"lumpy">> /\ OnePreviousWithFoo /\ pc # "UploadPrebuilt") => FooReused

\* The publish for board 'lumpy-board' has resolved its index against the
\* one previous index: foo-1.0 is reused and bar-2.0 is left to upload.
C15_Witness ==
  /\ opt.board = <<"lumpy", "-", "board">> /\ OnePreviousWithFoo /\ FooReused
  /\ opt.npkgs = 2 /\ uploads # <<>>

\* -------------------------------------------------------------- a run of main
\* Vocabulary: main is inside a publish; some transfer, remote-shell command
\* or git command of this run has been issued.
InPublish == main.pc \in {"host", "board publish"}
RemoteEffects ==
  \/ \E i \in 1..Len(main.published) : main.published[i].remote
  \/ cmdlog # <<>>
  \/ \E p \in DOMAIN workers : workers[p].rr.log # <<>>
  \/ gave_up # {}
ConfigError == exc \in {"UnknownBoardFormat", "FiltersEmpty"}

\* C13: when main ends in UnknownBoardFormat or FiltersEmpty, no transfer,
\* remote-shell command or git command of that run has been issued, also when
\* the host and a board are both selected.
C13_ConfigErrorBeforeRemoteEffect == ConfigError => ~RemoteEffects

\* The previous binhost URLs that were fetched, in the order given.
FetchedUpTo(n) ==
  LET urls == SubSeq(main.options.previous_binhost_url, 1, n)
      got == SelectSeq(urls, LAMBDA u : u.fetched)
  IN [i \in 1..Len(got) |-> got[i].index]
AllFetched == FetchedUpTo(Len(main.options.previous_binhost_url))

\* C18: a previous binhost URL whose fetch gives no index is skipped: the loop
\* goes on without an exception, main hands the fetched indexes in their
\* order to UploadPrebuilt, and the publish resolves against them alone:
\* foo-1.0 is uploaded again exactly when no fetched index holds it, and is
\* written with the URI of the first fetched index otherwise.
C18_FailedFetchSkipped ==
  /\ main.pc = "previous_binhost_url" =>
       /\ pc = "main" /\ exc = "none"
       /\ main.pkg_indexes = FetchedUpTo(main.url - 1)
  /\ main.pc \in {"sync_host", "host", "board", "board publish", "exit"} =>
       main.pkg_indexes = AllFetched
  /\ InPublish => opt.pkg_indexes = AllFetched
  /\ (InPublish /\ Resolved) =>
       /\ AllFetched = <<>> => uploads # <<>> /\ uploads[1].CPV = Foo
       /\ AllFetched # <<>> =>
            uploads = <<>> /\ WrittenURI(Foo) = AllFetched[1][1].URI

\* The first of two previous URLs could not be fetched: the publish goes on
\* and takes foo-1.0 from the second one.
C18_Witness ==
  /\ InPublish /\ Resolved
  /\ Len(main.options.previous_binhost_url) = 2
  /\ ~main.options.previous_binhost_url[1].fetched
  /\ main.options.previous_binhost_url[2].fetched
  /\ uploads = <<>> /\ WrittenURI(Foo) = <<"previous-2">>

\* C20: with the host and a board selected, the board's UploadPrebuilt is
\* called only after the host's has returned, both with the one version main
\* computed; from a host publish that raised, main takes no further step.
C20_HostThenBoard ==
  /\ [](/\ main.pc = "host" =>
             /\ main.published = <<>>
             /\ opt.board = None /\ opt.version = main.version
        /\ main.pc = "board publish" =>
             /\ opt.board = main.options.board /\ opt.version = main.version
             /\ IF main.options.sync_host
                THEN /\ Len(main.published) = 1
                     /\ main.published[1].board = None
                     /\ main.published[1].version = opt.version
                     /\ main.published[1].remote
                ELSE main.published = <<>>
        /\ main.pc \notin {"main", "sys.exit(1)"} => main.clock = 1)
  /\ [][~(InPublish /\ pc = "raised")]_vars

\* Both publishes of one run have returned, the host's first, with the same
\* version.
C20_Witness ==
  /\ main.pc = "exit" /\ Len(main.published) = 2
  /\ main.published[1].board = None
  /\ main.published[2].board = <<"lumpy", "-", "board">>
  /\ main.published[1].version = main.published[2].version

\* ------------------------------------------------------- one gs:// publish
\* One UploadPrebuilt call of the host target to a gs:// destination, from the
\* resolution of its index to the end of its config syncs.  The filters and
\* at most one previous index vary in the runs that have a local package to
\* read them for.
InitGs ==
  /\ opt \in {o \in [upload_location   : {"gs://bucket"},
                     git_sync          : BOOLEAN,
                     sync_binhost_conf : BOOLEAN,
                     git_sync_retries  : {1},
                     npkgs             : 0..MaxPkgs,
                     git_file          : {File(MakeConf)},
                     binhost_conf      : {NoFile},
                     board             : {None},
                     version           : {<<"version">>},
                     pkg_indexes       : PrevIndexLists] :
                /\ Len(o.pkg_indexes) <= 1
                /\ o.npkgs = 0 => o.pkg_indexes = <<>>}
  /\ _FILTER_PACKAGES \in FilterSets
  /\ opt.npkgs = 0 => _FILTER_PACKAGES = {}
  /\ pc = "UploadPrebuilt"
  /\ exc = "none"
  /\ pending = "none"
  /\ fs = [f \in {GitFile, BinhostConf} |->
             IF f = GitFile THEN opt.git_file ELSE opt.binhost_conf]
  /\ key = DefaultKey
  /\ value = UrlValue(opt)
  /\ hist = <<>>
  /\ cwd = "orig"
  /\ old_cwd = "unset"
  /\ branch = "none"
  /\ invoked = {}
  /\ workers = <<>>
  /\ polls = 0
  /\ failed_uploads = {}
  /\ cmds = <<>>
  /\ rr = RetryFresh
  /\ gave_up = {}
  /\ cmdlog = <<>>
  /\ push = PushFresh
  /\ make_path = NoPath
  /\ pkg_index = <<>>
  /\ uploads = <<>>
  /\ main = NoMain

NextGs ==
  \/ UploadPrebuiltStart
  \/ RemoteUploadStart
  \/ \E p \in DOMAIN workers : WorkerStart(p)
  \/ \E p \in DOMAIN workers : WorkerAttempt(p)
  \/ ResultGetTimeout
  \/ ResultGetReturn
  \/ CheckFailedUploads
  \/ GitSync
  \/ RGRepoSync
  \/ RGRepoStart
  \/ RGGitConfig
  \/ RGUpdateLocalFile
  \/ RGPushDefault
  \/ RGCommit
  \/ PushRepoSync
  \/ PushGitPush
  \/ RGFinally
  \/ SyncBinhostConf
  \/ UBGitAdd
  \/ UBGitCommit

SpecGs == InitGs /\ [][NextGs]_vars

\* ------------------------------------------------ the index file in the pool
\* The pair of the generated index file, and the tasks RemoteUpload is handed:
\* one per package left to upload, and the index file's.
IndexPair == PackagesPair(opt)
PackagePairs == GenerateUploadDict("package_path", RemoteLocation(opt), uploads)
\* The index file's transfer, and no other, was given up after its last retry.
IndexAloneFailed == gave_up = {IndexPair}

\* C21: with a gs:// destination the index file is always one of the pairs
\* handed to RemoteUpload, in one pool with the package files and in no order
\* with them.  The tasks of the pool are the package pairs and the index pair,
\* so never none, and only the index pair when no package is left to upload;
\* any task in the queue can be taken by a free process whatever the state of
\* the others; RemoteUpload returns only after the index file's transfer was
\* run; and when that transfer alone failed the publish raises and neither
\* RevGitFile nor UpdateBinhostConfFile is entered.
C21_IndexInPool ==
  /\ [](pc = "result.get" =>
          /\ IndexPair \in DOMAIN workers
          /\ DOMAIN workers = PackagePairs \cup {IndexPair}
          /\ DOMAIN workers # {}
          /\ uploads = <<>> => DOMAIN workers = {IndexPair}
          /\ \A p \in DOMAIN workers :
               workers[p].st = "queued" /\ Cardinality(Running) < PoolSize
                 => ENABLED WorkerStart(p))
  /\ [][pc = "result.get" /\ pc' # "result.get" =>
          /\ workers[IndexPair].st = "done"
          /\ Len(workers[IndexPair].rr.log) >= 1
          /\ AllFailed(workers[IndexPair].rr.log) => IndexPair \in failed_uploads']_vars
  /\ [](IsGs(opt) /\ IndexAloneFailed =>
          /\ pc \in {"result.get", "failed_uploads", "raised"}
          /\ ~RanRevGitFile /\ ~RanUpdateBinhostConfFile)
  /\ [][pc = "failed_uploads" /\ IndexAloneFailed =>
          pc' = "raised" /\ exc' \in {"UploadFailed", "TypeError"}]_vars

\* A publish with local packages of which none is left to upload, and with
\* both config syncs asked for, has raised after the transfer of its index
\* file, the only task of the pool, failed three times.
C21_Witness ==
  /\ pc = "raised" /\ exc = "UploadFailed"
  /\ IndexAloneFailed
  /\ opt.npkgs > 0 /\ uploads = <<>>
  /\ failed_uploads = {IndexPair}
  /\ opt.git_sync /\ opt.sync_binhost_conf
  /\ ~RanRevGitFile /\ ~RanUpdateBinhostConfFile
====
